---- MODULE Spec2Model ----
(***************************************************************************)
(* Model of src/builder.rs of the webbundle crate: the bundle Builder and  *)
(* the ExchangeBuilder that turns the files under a directory into         *)
(* exchanges (request/response pairs).                                     *)
(*                                                                         *)
(* Strings are modelled as sequences of tokens: a token is a file name,    *)
(* a URL origin ("https://example.com") or the separator "/".  Formatting  *)
(* a path or a URL produces such a sequence and parsing consumes one, so   *)
(* the path -> string -> Url -> string -> Uri pipeline of                  *)
(* url_from_relative_path is computed step by step.  File names are taken  *)
(* from characters that need no percent-encoding.  The base directory of   *)
(* a walk is a directory or does not exist; symlinks lie below it.         *)
(***************************************************************************)
EXTENDS Naturals, Sequences, FiniteSets

\* ---------------------------------------------------------------- bounds

\* Exchange-adding calls (exchange, exchanges_from_dir) made on one Builder.
MaxAdds == 2

\* Entries added by exchange() plus walk() calls on one stand-alone
\* ExchangeBuilder.
MaxDirect == 2

\* ------------------------------------------------------------ small helpers

None == [none |-> TRUE]

Some(v) == [some |-> v]

Front(s) == SubSeq(s, 1, Len(s) - 1)

Last(s) == s[Len(s)]

IsPrefix(s, t) == Len(s) <= Len(t) /\ SubSeq(t, 1, Len(s)) = s

\* ------------------------------------------------------------------- paths

\* std::path::Path: absolute or relative, and its components.
MkPath(abs, comps) == [abs |-> abs, comps |-> comps]

Rel(comps) == MkPath(FALSE, comps)

\* Path::is_relative
is_relative(p) == ~p.abs

\* Path::display().to_string(): the components separated by "/".
RECURSIVE JoinComps(_)
JoinComps(comps) ==
    IF comps = <<>> THEN <<>>
    ELSE IF Len(comps) = 1 THEN <<comps[1]>>
    ELSE <<comps[1], "/">> \o JoinComps(Tail(comps))

display(p) == IF p.abs THEN <<"/">> \o JoinComps(p.comps) ELSE JoinComps(p.comps)

\* PathBuf::from(dir.as_ref())
PathBuf_from(p) == MkPath(p.abs, p.comps)

\* PathBuf::join: an absolute argument replaces the receiver.
path_join(base, p) == IF p.abs THEN p ELSE MkPath(base.abs, base.comps \o p.comps)

\* pathdiff::diff_paths(entry.path(), base_dir) for an entry WalkDir found
\* under base_dir: the components of the entry below base_dir.
diff_paths(entry, base) ==
    Rel(SubSeq(entry.comps, Len(base.comps) + 1, Len(entry.comps)))

\* -------------------------------------------------------------------- URLs

\* url::Url: an origin, the path segments, and whether the URL
\* cannot be a base (as "data:x").  "https://example.com/" has the single
\* empty segment, "https://example.com/assets/" has <<"assets", "">>.
MkUrl(origin, path, cbb) == [origin |-> origin, path |-> path, cbb |-> cbb]

Err(msg) == [ok |-> FALSE, err |-> msg]

Ok(v) == [ok |-> TRUE, val |-> v]

\* The segments of a relative reference: the tokens between the "/".
RECURSIVE Split(_)
Split(s) ==
    IF s = <<>> THEN <<"">>
    ELSE IF Head(s) = "/" THEN <<"">> \o Split(Tail(s))
    ELSE IF Len(s) = 1 THEN <<Head(s)>>
    ELSE <<Head(s)>> \o Split(Tail(Tail(s)))

\* Dot-segment removal of the URL parser: "." is dropped, ".." pops the
\* segment before it; either as the last segment leaves an empty one.
RECURSIVE RemoveDots(_, _)
RemoveDots(out, segs) ==
    IF segs = <<>> THEN out
    ELSE LET s == Head(segs)
             last == Len(segs) = 1
             popped == IF out = <<>> THEN <<>> ELSE Front(out)
         IN IF s = ".."
            THEN RemoveDots(IF last THEN popped \o <<"">> ELSE popped, Tail(segs))
            ELSE IF s = "."
            THEN RemoveDots(IF last THEN out \o <<"">> ELSE out, Tail(segs))
            ELSE RemoveDots(out \o <<s>>, Tail(segs))

\* Url::join(input): resolves input against the base as a browser resolves a
\* link: the last segment of the base path is replaced by the input's
\* segments.  Fails on a base that cannot be a base.
url_join(b, s) ==
    IF b.cbb THEN Err("relative URL with a cannot-be-a-base base")
    ELSE IF s = <<>> THEN Ok(b)
    ELSE IF Head(s) = "/"
    THEN Ok(MkUrl(b.origin, RemoveDots(<<>>, Split(Tail(s))), FALSE))
    ELSE Ok(MkUrl(b.origin, RemoveDots(<<>>, Front(b.path) \o Split(s)), FALSE))

\* Url::to_string(): the serialization.
RECURSIVE SerializePath(_)
SerializePath(segs) ==
    IF segs = <<>> THEN <<>>
    ELSE <<"/">> \o (IF Head(segs) = "" THEN <<>> ELSE <<Head(segs)>>)
                 \o SerializePath(Tail(segs))

url_to_string(u) ==
    IF u.cbb THEN <<u.origin>> \o u.path ELSE <<u.origin>> \o SerializePath(u.path)

\* str::parse::<http::Uri>(): scheme and authority, then the path, which
\* starts with "/".
uri_parse(s) ==
    IF s = <<>> THEN Err("empty string")
    ELSE IF Len(s) >= 2 /\ s[2] # "/" THEN Err("invalid uri character")
    ELSE Ok([authority |-> s[1], path_and_query |-> Tail(s)])

\* Uri::to_string()
uri_to_string(uri) == <<uri.authority>> \o uri.path_and_query

\* -------------------------------------------------------------- filesystem

\* A node of the directory tree.  `target` is where a symlink points.
File(body, readable) ==
    [kind |-> "file", body |-> body, readable |-> readable, target |-> <<>>]

Dir(readable) ==
    [kind |-> "dir", body |-> <<>>, readable |-> readable, target |-> <<>>]

Symlink(target) ==
    [kind |-> "symlink", body |-> <<>>, readable |-> TRUE, target |-> target]

Fifo == [kind |-> "other", body |-> <<>>, readable |-> TRUE, target |-> <<>>]

\* What site/index.html, site/js and site/js/hello.js can be.
IndexKinds ==
    { File(<<60, 62>>, TRUE), File(<<60, 62>>, FALSE),
      Symlink(<<"elsewhere", "x.js">>) }

JsKinds == { Dir(TRUE), Dir(FALSE), Symlink(<<"elsewhere">>) }

HelloKinds == { File(<<>>, TRUE), File(<<>>, FALSE), Symlink(<<"gone">>), Fifo }

\* The tree: site/{index.html, js/hello.js} as in tests/builder, and a
\* directory outside site that symlinks may point to.
MkFs(idx, js, hello) ==
    [p \in { <<"site">>, <<"site", "index.html">>, <<"site", "js">>,
             <<"elsewhere">>, <<"elsewhere", "x.js">> }
           \cup (IF js.kind = "dir" THEN {<<"site", "js", "hello.js">>} ELSE {})
       |-> IF p = <<"site">> THEN Dir(TRUE)
           ELSE IF p = <<"site", "index.html">> THEN idx
           ELSE IF p = <<"site", "js">> THEN js
           ELSE IF p = <<"site", "js", "hello.js">> THEN hello
           ELSE IF p = <<"elsewhere">> THEN Dir(TRUE)
           ELSE File(<<7>>, TRUE)]

\* What lies in a directory that cannot be listed plays no part.
FileSystems ==
    { MkFs(idx, js, hello) : idx \in IndexKinds, js \in JsKinds, hello \in HelloKinds }
    \ { MkFs(idx, Dir(FALSE), hello) :
          idx \in IndexKinds, hello \in HelloKinds \ {File(<<>>, TRUE)} }

\* The tree of the crate's tests: two regular files.
TestFs == MkFs(File(<<60, 62>>, TRUE), Dir(TRUE), File(<<>>, TRUE))

VARIABLES
    fs,      \* the directory tree; no operation of the crate writes to it
    b,       \* the Builder the caller holds, None once it was moved away
    eb,      \* the ExchangeBuilder in use, None when there is none
    last,    \* the last fallible call that returned, and what it returned
    added,   \* history: the chunks of exchanges handed to the Builder held, in call order
    walks,   \* history: the successful walks so far, each with the entries it produced
    given    \* history: the latest argument of each setter called on the Builder

vars == <<fs, b, eb, last, added, walks, given>>

\* The operating system's view of a path: ".." steps up, "." stays.
RECURSIVE Normalize(_, _)
Normalize(out, comps) ==
    IF comps = <<>> THEN out
    ELSE IF Head(comps) = ".."
    THEN Normalize(IF out = <<>> THEN <<>> ELSE Front(out), Tail(comps))
    ELSE IF Head(comps) = "." THEN Normalize(out, Tail(comps))
    ELSE Normalize(out \o <<Head(comps)>>, Tail(comps))

\* The node a path names, following a final symlink as open(2) does.
Lookup(comps) ==
    LET c == Normalize(<<>>, comps)
    IN IF c \notin DOMAIN fs THEN None
       ELSE IF fs[c].kind = "symlink"
       THEN (IF fs[c].target \in DOMAIN fs THEN Some(fs[fs[c].target]) ELSE None)
       ELSE Some(fs[c])

\* std::fs::read(path)
fs_read(path) ==
    LET n == Lookup(path.comps)
    IN IF n = None THEN Err("No such file or directory")
       ELSE IF n.some.kind # "file" THEN Err("Not a regular file")
       ELSE IF ~n.some.readable THEN Err("Permission denied")
       ELSE Ok(n.some.body)

\* std::fs::read_dir(path), as WalkDir uses it: the entries of a directory.
Children(comps) ==
    { c \in DOMAIN fs : Len(c) = Len(comps) + 1 /\ Front(c) = comps }

\* mime_guess::from_path(path).first_or_octet_stream(), by extension.
mime_guess(path) ==
    LET name == IF path.comps = <<>> THEN "" ELSE Last(path.comps)
    IN IF name = "index.html" THEN "text/html"
       ELSE IF name \in {"hello.js", "x.js"} THEN "application/javascript"
       ELSE "application/octet-stream"

\* --------------------------------------------------------- ExchangeBuilder

\* What a fallible method returns, with the primitive steps it took in
\* the order it took them.
Outcome(res, trace) == [res |-> res, trace |-> trace]

\* ExchangeBuilder::new.  `srcs` is history: the relative path each entry of
\* `exchanges` was made from.
ExchangeBuilder_new(base_dir, base_url) ==
    [base_url |-> base_url, base_dir |-> base_dir, exchanges |-> <<>>,
     srcs |-> <<>>]

\* Variant: the ensure! is missing, the path goes straight to Url::join.
url_from_relative_path_unchecked(self, relative_path) ==
    LET joined == url_join(self.base_url, display(relative_path))
    IN IF ~joined.ok
       THEN Outcome(joined, <<"url_join">>)
       ELSE Outcome(uri_parse(url_to_string(joined.val)), <<"url_join", "uri_parse">>)

url_from_relative_path(self, relative_path) ==
    IF ~is_relative(relative_path)
    THEN Outcome(Err("Path is not relative"), <<"is_relative">>)
    ELSE LET joined == url_join(self.base_url, display(relative_path))
         IN IF ~joined.ok
            THEN Outcome(joined, <<"is_relative", "url_join">>)
            ELSE Outcome(uri_parse(url_to_string(joined.val)),
                         <<"is_relative", "url_join", "uri_parse">>)

\* Variant: the content length is off by one.
create_response_len(self, relative_path) ==
    IF ~is_relative(relative_path)
    THEN Outcome(Err("Path is not relative"), <<"is_relative">>)
    ELSE LET path == path_join(self.base_dir, relative_path)
             body == fs_read(path)
         IN IF ~body.ok
            THEN Outcome(body, <<"is_relative", "fs_read">>)
            ELSE Outcome(Ok([status |-> "OK",
                             content_length |-> Len(body.val) + 1,
                             content_type |-> mime_guess(path),
                             body |-> body.val]),
                         <<"is_relative", "fs_read">>)

create_response(self, relative_path) ==
    IF ~is_relative(relative_path)
    THEN Outcome(Err("Path is not relative"), <<"is_relative">>)
    ELSE LET path == path_join(self.base_dir, relative_path)
             body == fs_read(path)
         IN IF ~body.ok
            THEN Outcome(body, <<"is_relative", "fs_read">>)
            ELSE Outcome(Ok([status |-> "OK",
                             content_length |-> Len(body.val),
                             content_type |-> mime_guess(path),
                             body |-> body.val]),
                         <<"is_relative", "fs_read">>)

\* ExchangeBuilder::exchange: the request is evaluated first, then the
\* response, then the push.
ExchangeBuilder_exchange(self, relative_path) ==
    LET uri == url_from_relative_path(self, relative_path)
    IN IF ~uri.res.ok THEN uri
       ELSE LET response == create_response(self, relative_path)
            IN IF ~response.res.ok
               THEN Outcome(response.res, uri.trace \o response.trace)
               ELSE Outcome(
                      Ok([self EXCEPT
                            !.exchanges = Append(@,
                                [request |-> [method |-> "GET", uri |-> uri.res.val],
                                 response |-> response.res.val]),
                            !.srcs = Append(@, relative_path)]),
                      uri.trace \o response.trace)

ExchangeBuilder_build(self) == self.exchanges

\* ----------------------------------------------------------------- WalkDir

\* WalkDir::new(&base_dir).into_iter(): a stack of directory listings, the
\* root alone in the first.  A listing that could not be read holds the
\* error instead.  `seen` is history: the entries yielded so far.
Listing(comps) ==
    IF comps \in DOMAIN fs /\ fs[comps].kind = "dir" /\ fs[comps].readable
    THEN [err |-> FALSE, rest |-> Children(comps)]
    ELSE [err |-> TRUE, rest |-> {}]

wd_new(self) ==
    [stack |-> << IF self.base_dir.comps \in DOMAIN fs
                  THEN [err |-> FALSE, rest |-> {self.base_dir.comps}]
                  ELSE [err |-> TRUE, rest |-> {}] >>,
     seen |-> <<>>]

\* Exhausted listings are popped.
RECURSIVE Unwind(_)
Unwind(stack) ==
    IF stack = <<>> THEN <<>>
    ELSE IF ~Last(stack).err /\ Last(stack).rest = {} THEN Unwind(Front(stack))
    ELSE stack

\* Variant: WalkDir limited to the entries of the root (max_depth(1)).
wd_yield_flat(iter, c) ==
    LET top == Len(iter.stack)
        s1 == [iter.stack EXCEPT ![top].rest = @ \ {c}]
        s2 == IF fs[c].kind = "dir" /\ iter.seen = <<>>
              THEN Append(s1, Listing(c)) ELSE s1
    IN [iter EXCEPT !.stack = Unwind(s2), !.seen = Append(@, c)]

\* The iterator after it yielded entry c of its top listing: c is taken off,
\* and a directory (never a symlink: links are not followed) is descended
\* into next.
wd_yield(iter, c) ==
    LET top == Len(iter.stack)
        s1 == [iter.stack EXCEPT ![top].rest = @ \ {c}]
        s2 == IF fs[c].kind = "dir" THEN Append(s1, Listing(c)) ELSE s1
    IN [iter EXCEPT !.stack = Unwind(s2), !.seen = Append(@, c)]

\* Variant: the file type is taken through the link (metadata() in place of
\* file_type()), so a link to a file counts as a file.
walk_entry_follow(self, iter, c) ==
    LET n == Lookup(c)
    IN IF n # None /\ n.some.kind = "file"
       THEN [res |-> ExchangeBuilder_exchange(
                        self, diff_paths(Rel(c), self.base_dir)).res,
             it |-> wd_yield(iter, c)]
       ELSE [res |-> Ok(self), it |-> wd_yield(iter, c)]

\* Variant: a file that fails is skipped like a symlink.
walk_entry_skip(self, iter, c) ==
    IF fs[c].kind = "file"
    THEN LET r == ExchangeBuilder_exchange(
                     self, diff_paths(Rel(c), self.base_dir)).res
         IN [res |-> IF r.ok THEN r ELSE Ok(self), it |-> wd_yield(iter, c)]
    ELSE [res |-> Ok(self), it |-> wd_yield(iter, c)]

\* Variant: `break` in place of `continue` at a symlink.
walk_entry_break(self, iter, c) ==
    IF fs[c].kind = "symlink"
    THEN [res |-> Ok(self),
          it |-> [wd_yield(iter, c) EXCEPT !.stack = <<>>]]
    ELSE IF fs[c].kind = "file"
    THEN [res |-> ExchangeBuilder_exchange(
                     self, diff_paths(Rel(c), self.base_dir)).res,
          it |-> wd_yield(iter, c)]
    ELSE [res |-> Ok(self), it |-> wd_yield(iter, c)]

\* One turn of the loop of ExchangeBuilder::walk for the yielded entry c:
\* the collector (or the error) and the iterator after it.
walk_entry(self, iter, c) ==
    IF fs[c].kind = "symlink"
    THEN [res |-> Ok(self), it |-> wd_yield(iter, c)]
    ELSE IF fs[c].kind = "file"
    THEN [res |-> ExchangeBuilder_exchange(
                     self, diff_paths(Rel(c), self.base_dir)).res,
          it |-> wd_yield(iter, c)]
    ELSE [res |-> Ok(self), it |-> wd_yield(iter, c)]

\* The loop of ExchangeBuilder::walk from iterator state iter on.  The order
\* in which a directory's entries are yielded is the file system's, so the
\* loop has one outcome per order: the collector or the first error, with
\* the entries WalkDir yielded up to there.
RECURSIVE walk_loop(_, _)
walk_loop(self, iter) ==
    IF iter.stack = <<>> THEN { [res |-> Ok(self), seen |-> iter.seen] }
    ELSE IF Last(iter.stack).err
    THEN { [res |-> Err("IO error reading a directory"), seen |-> iter.seen] }
    ELSE UNION { LET r == walk_entry(self, iter, c)
                 IN IF r.res.ok THEN walk_loop(r.res.val, r.it)
                    ELSE { [res |-> r.res, seen |-> r.it.seen] }
                 : c \in Last(iter.stack).rest }

ExchangeBuilder_walk(self) == walk_loop(self, wd_new(self))

\* ----------------------------------------------------------------- Builder

Builder_new == [version |-> None, primary_url |-> None, manifest |-> None,
                exchanges |-> <<>>]

Builder_version(self, version) == [self EXCEPT !.version = Some(version)]

Builder_primary_url(self, primary_url) ==
    [self EXCEPT !.primary_url = Some(primary_url)]

\* Variant: the manifest setter writes the primary url.
Builder_manifest_wrong(self, manifest) ==
    [self EXCEPT !.primary_url = Some(manifest)]

Builder_manifest(self, manifest) == [self EXCEPT !.manifest = Some(manifest)]

Builder_exchange(self, exchange) ==
    [self EXCEPT !.exchanges = Append(@, exchange)]

\* Variant: the new entries go in front of the accumulated ones.
Builder_append_front(self, exchanges) ==
    [self EXCEPT !.exchanges = exchanges \o @]

\* self.exchanges.append(&mut ...) of exchanges_from_dir
Builder_append(self, exchanges) ==
    [self EXCEPT !.exchanges = @ \o exchanges]

\* Variant: the primary url is checked before the version.
Builder_build_swapped(self) ==
    IF self.primary_url = None THEN Err("no primary_url")
    ELSE IF self.version = None THEN Err("no version")
    ELSE Ok([version |-> self.version.some,
             primary_url |-> self.primary_url.some,
             manifest |-> self.manifest,
             exchanges |-> self.exchanges])

Builder_build(self) ==
    IF self.version = None THEN Err("no version")
    ELSE IF self.primary_url = None THEN Err("no primary_url")
    ELSE Ok([version |-> self.version.some,
             primary_url |-> self.primary_url.some,
             manifest |-> self.manifest,
             exchanges |-> self.exchanges])

\* ------------------------------------------------------------------ inputs

Origin == "https://example.com"

Versions == {"Version1", "VersionB1"}

PrimaryUrls ==
    { uri_parse(<<Origin, "/">>).val, uri_parse(<<Origin, "/", "index.html">>).val }

ManifestUrls ==
    { uri_parse(<<Origin, "/", "manifest.json">>).val,
      uri_parse(<<Origin, "/", "index.html">>).val }

\* Exchanges a caller hands to Builder::exchange.
GivenExchanges ==
    { [request |-> [method |-> "GET",
                    uri |-> uri_parse(<<Origin, "/", "style.css">>).val],
       response |-> [status |-> "OK", content_length |-> 1,
                     content_type |-> "text/css", body |-> <<9>>]],
      [request |-> [method |-> "GET",
                    uri |-> uri_parse(<<Origin, "/", "index.html">>).val],
       response |-> [status |-> "Not Found", content_length |-> 0,
                     content_type |-> "text/html", body |-> <<>>]] }

BaseDirs == { Rel(<<"site">>), Rel(<<"missing">>) }

\* "https://example.com/", "https://example.com/assets",
\* "https://example.com/assets/" and "data:x".
BaseUrls ==
    { MkUrl(Origin, <<"">>, FALSE), MkUrl(Origin, <<"assets">>, FALSE),
      MkUrl(Origin, <<"assets", "">>, FALSE), MkUrl("data:", <<"x">>, TRUE) }

\* Paths a caller hands to ExchangeBuilder::exchange.
DirectPaths ==
    { Rel(<<"index.html">>), Rel(<<"js", "hello.js">>), Rel(<<"js">>),
      Rel(<<"missing.txt">>), Rel(<<"..", "site", "index.html">>),
      MkPath(TRUE, <<"site", "index.html">>) }

\* ------------------------------------------------------------------ actions

\* What a call that returns Ok(self) gives back: the object, kept in b or eb.
Self == [self |-> TRUE]

\* A returned call: the method, its argument, the result, and as history the
\* primitive steps taken, the entries WalkDir yielded, and how many
\* exchanges were dropped with the objects moved into a failed call.
Call(op, arg, res, trace, seen, lost) ==
    [op |-> op, arg |-> arg, res |-> res, trace |-> trace, seen |-> seen,
     lost |-> lost]

\* A program holds a fresh Builder, or a fresh ExchangeBuilder of its own (as
\* the tests do), over some directory tree.
Init ==
    /\ fs \in FileSystems
    /\ \/ b = Some(Builder_new) /\ eb = None
       \/ /\ b = None
          /\ \E dir \in BaseDirs, url \in BaseUrls :
                eb = Some(ExchangeBuilder_new(dir, url))
    /\ last = None
    /\ added = <<>>
    /\ walks = <<>>
    /\ given = [version |-> None, primary_url |-> None, manifest |-> None]

\* Builder::version
CallVersion(v) ==
    /\ b # None
    /\ b' = Some(Builder_version(b.some, v))
    /\ given' = [given EXCEPT !.version = Some(v)]
    /\ UNCHANGED <<fs, eb, last, added, walks>>

\* Builder::primary_url
CallPrimaryUrl(u) ==
    /\ b # None
    /\ b' = Some(Builder_primary_url(b.some, u))
    /\ given' = [given EXCEPT !.primary_url = Some(u)]
    /\ UNCHANGED <<fs, eb, last, added, walks>>

\* Builder::manifest
CallManifest(u) ==
    /\ b # None
    /\ b' = Some(Builder_manifest(b.some, u))
    /\ given' = [given EXCEPT !.manifest = Some(u)]
    /\ UNCHANGED <<fs, eb, last, added, walks>>

\* Builder::exchange
CallExchange(e) ==
    /\ b # None
    /\ Len(added) < MaxAdds
    /\ b' = Some(Builder_exchange(b.some, e))
    /\ added' = Append(added, [kind |-> "one", entries |-> <<e>>])
    /\ UNCHANGED <<fs, eb, last, walks, given>>

\* What a successful walk leaves in the history of walks: the entries it
\* added to the collector, the relative path of each, and what WalkDir
\* yielded.
WalkRecord(before, after, seen) ==
    [base_dir |-> after.base_dir, base_url |-> after.base_url,
     entries |-> SubSeq(after.exchanges, Len(before.exchanges) + 1,
                        Len(after.exchanges)),
     srcs |-> SubSeq(after.srcs, Len(before.srcs) + 1, Len(after.srcs)),
     seen |-> seen]

\* Builder::exchanges_from_dir.  On an error of walk() the `?` returns it
\* and the Builder, moved into the call, is dropped.
CallExchangesFromDir(dir, base_url) ==
    /\ b # None
    /\ Len(added) < MaxAdds
    /\ LET new == ExchangeBuilder_new(PathBuf_from(dir), base_url)
       IN \E out \in ExchangeBuilder_walk(new) :
             /\ last' = Call("exchanges_from_dir",
                             [dir |-> dir, base_url |-> base_url],
                             IF out.res.ok THEN Ok(Self) ELSE out.res,
                             <<>>, out.seen,
                             IF out.res.ok THEN 0 ELSE Len(b.some.exchanges))
             /\ IF out.res.ok
                THEN /\ b' = Some(Builder_append(
                                    b.some, ExchangeBuilder_build(out.res.val)))
                     /\ added' = Append(added,
                            [kind |-> "dir",
                             entries |-> ExchangeBuilder_build(out.res.val)])
                     /\ walks' = Append(walks, WalkRecord(new, out.res.val, out.seen))
                ELSE /\ b' = None
                     /\ UNCHANGED <<added, walks>>
    /\ UNCHANGED <<fs, eb, given>>

\* Builder::build
CallBuild ==
    /\ b # None
    /\ last' = Call("build", b.some, Builder_build(b.some), <<>>, <<>>, 0)
    /\ b' = None
    /\ UNCHANGED <<fs, eb, added, walks, given>>

\* ExchangeBuilder::exchange called by the holder of a collector; on an
\* error the collector, moved into the call, is dropped.
CallCollectorExchange(p) ==
    /\ eb # None
    /\ Len(eb.some.exchanges) + Len(walks) < MaxDirect
    /\ LET out == ExchangeBuilder_exchange(eb.some, p)
       IN /\ eb' = IF out.res.ok THEN Some(out.res.val) ELSE None
          /\ last' = Call("exchange", p,
                          IF out.res.ok THEN Ok(Self) ELSE out.res,
                          out.trace, <<>>,
                          IF out.res.ok THEN 0 ELSE Len(eb.some.exchanges))
    /\ UNCHANGED <<fs, b, added, walks, given>>

\* ExchangeBuilder::walk called by the holder of a collector.
CallCollectorWalk ==
    /\ eb # None
    /\ Len(eb.some.exchanges) + Len(walks) < MaxDirect
    /\ \E out \in ExchangeBuilder_walk(eb.some) :
          /\ last' = Call("walk",
                          [dir |-> eb.some.base_dir, base_url |-> eb.some.base_url],
                          IF out.res.ok THEN Ok(Self) ELSE out.res,
                          <<>>, out.seen,
                          IF out.res.ok THEN 0 ELSE Len(eb.some.exchanges))
          /\ IF out.res.ok
             THEN /\ eb' = Some(out.res.val)
                  /\ walks' = Append(walks, WalkRecord(eb.some, out.res.val, out.seen))
             ELSE /\ eb' = None
                  /\ UNCHANGED walks
    /\ UNCHANGED <<fs, b, added, given>>

\* ExchangeBuilder::build called by the holder of a collector.
CallCollectorBuild ==
    /\ eb # None
    /\ last' = Call("collected", eb.some, Ok([exchanges |-> ExchangeBuilder_build(eb.some)]),
                    <<>>, <<>>, 0)
    /\ eb' = None
    /\ UNCHANGED <<fs, b, added, walks, given>>

Next ==
    \/ \E v \in Versions : CallVersion(v)
    \/ \E u \in PrimaryUrls : CallPrimaryUrl(u)
    \/ \E u \in ManifestUrls : CallManifest(u)
    \/ \E e \in GivenExchanges : CallExchange(e)
    \/ \E dir \in BaseDirs, url \in BaseUrls : CallExchangesFromDir(dir, url)
    \/ CallBuild
    \/ \E p \in DirectPaths : CallCollectorExchange(p)
    \/ CallCollectorWalk
    \/ CallCollectorBuild

Spec == Init /\ [][Next]_vars

\* ------------------------------------------------------------- properties

Range(s) == { s[i] : i \in DOMAIN s }

RECURSIVE Flatten(_)
Flatten(chunks) ==
    IF chunks = <<>> THEN <<>> ELSE Head(chunks).entries \o Flatten(Tail(chunks))

\* The entries of the tree under base that a traversal that follows no link
\* comes to: base itself and everything whose ancestors up to base are
\* directories that can be listed.
Reached(base, c) ==
    /\ Len(c) >= Len(base.comps)
    /\ SubSeq(c, 1, Len(base.comps)) = base.comps
    /\ \A k \in Len(base.comps)..(Len(c) - 1) :
          /\ SubSeq(c, 1, k) \in DOMAIN fs
          /\ fs[SubSeq(c, 1, k)].kind = "dir"
          /\ fs[SubSeq(c, 1, k)].readable

TreeEntries(base) == { c \in DOMAIN fs : Reached(base, c) }

TreeFiles(base) == { c \in TreeEntries(base) : fs[c].kind = "file" }

RelTo(base, c) == Rel(SubSeq(c, Len(base.comps) + 1, Len(c)))

UriString(e) == uri_to_string(e.request.uri)

\* The string of the URL-join of base_url and the string form of path p.
Joined(base_url, p) == url_to_string(url_join(base_url, display(p)).val)

\* Entry c cannot be processed: a file that cannot be read or whose URL
\* cannot be formed, or a directory that cannot be listed.
Fails(base_url, c) ==
    \/ fs[c].kind = "file" /\ (~fs[c].readable \/ base_url.cbb)
    \/ fs[c].kind = "dir" /\ ~fs[c].readable

Returned(op) == last # None /\ last.op = op

WalkReturned == last # None /\ last.op \in {"walk", "exchanges_from_dir"}

\* C1: build() succeeds exactly when version and primary_url were both set;
\* the bundle then holds the latest value given for each field, the manifest
\* as given or absent, and the Builder's exchanges; a failure names version
\* when version is missing and primary_url when only primary_url is.
C1_BuildRequiresVersionAndPrimaryUrl ==
    Returned("build") =>
        /\ last.res.ok <=> (given.version # None /\ given.primary_url # None)
        /\ last.res.ok =>
              /\ last.res.val.version = given.version.some
              /\ last.res.val.primary_url = given.primary_url.some
              /\ last.res.val.manifest = given.manifest
              /\ last.res.val.exchanges = last.arg.exchanges
        /\ ~last.res.ok =>
              last.res.err = IF given.version = None THEN "no version"
                             ELSE "no primary_url"

\* A bundle built without a manifest from a Builder holding exchanges.
C1_Witness ==
    /\ Returned("build")
    /\ last.res.ok
    /\ last.res.val.manifest = None
    /\ Len(last.res.val.exchanges) >= 2

\* C2: the Builder's exchanges, and the bundle's, are the concatenation in
\* call order of what each exchange and exchanges_from_dir call added, and a
\* directory's entries are in the order the traversal came to its files.
C2_InsertionOrder ==
    /\ b # None => b.some.exchanges = Flatten(added)
    /\ (Returned("build") /\ last.res.ok) =>
          last.res.val.exchanges = Flatten(added)
    /\ \A i \in DOMAIN walks :
          LET w == walks[i]
              files == SelectSeq(w.seen, LAMBDA c : fs[c].kind = "file")
          IN /\ Len(w.entries) = Len(files)
             /\ \A k \in DOMAIN files :
                   /\ w.srcs[k] = RelTo(w.base_dir, files[k])
                   /\ UriString(w.entries[k]) = Joined(w.base_url, w.srcs[k])
    /\ b # None =>
          LET dirs == SelectSeq(added, LAMBDA ch : ch.kind = "dir")
          IN /\ Len(dirs) = Len(walks)
             /\ \A i \in DOMAIN dirs : dirs[i].entries = walks[i].entries

\* A bundle built after a directory of two files and then a single exchange.
C2_Witness ==
    /\ Returned("build")
    /\ last.res.ok
    /\ Len(added) = 2
    /\ added[1].kind = "dir"
    /\ Len(added[1].entries) = 2
    /\ added[2].kind = "one"
    /\ Len(last.res.val.exchanges) = 3

\* C3: the URL of every entry of a directory walk is the base URL with the
\* file's relative path appended, and so starts with the base URL.
C3_BaseUrlIsPrefix ==
    \A i \in DOMAIN walks :
       \A k \in DOMAIN walks[i].entries :
          /\ UriString(walks[i].entries[k])
                = url_to_string(walks[i].base_url) \o display(walks[i].srcs[k])
          /\ IsPrefix(url_to_string(walks[i].base_url),
                      UriString(walks[i].entries[k]))

\* C4: a symlink in the tree never yields an entry, whatever it points to,
\* and does not end the traversal: a walk that succeeds came to every entry
\* of the tree, and a walk never fails at a symlink.
C4_SymlinksSkipped ==
    /\ \A i \in DOMAIN walks :
          LET w == walks[i]
          IN /\ \A k \in DOMAIN w.srcs :
                   fs[w.base_dir.comps \o w.srcs[k].comps].kind # "symlink"
             /\ Range(w.seen) = TreeEntries(w.base_dir)
             /\ Len(w.entries) =
                   Cardinality({ c \in Range(w.seen) : fs[c].kind = "file" })
    /\ (WalkReturned /\ ~last.res.ok /\ last.seen # <<>>) =>
          fs[Last(last.seen)].kind # "symlink"

\* A successful walk that came to a symlink and afterwards to a file.
C4_Witness ==
    \E i \in DOMAIN walks :
       \E j, k \in DOMAIN walks[i].seen :
          /\ j < k
          /\ fs[walks[i].seen[j]].kind = "symlink"
          /\ fs[walks[i].seen[k]].kind = "file"
          /\ Len(walks[i].entries) >= 1

\* C5: a walk ends at the first entry that fails: the call returns the
\* error, nothing yielded before that entry had failed and nothing is
\* yielded after it, the collector and (in exchanges_from_dir) the Builder
\* are gone with what they held, and a walk that succeeds skipped no
\* failing entry.
C5_AllOrNothing ==
    /\ (WalkReturned /\ ~last.res.ok) =>
          /\ last.op = "exchanges_from_dir" => b = None
          /\ last.op = "walk" => eb = None
          /\ DOMAIN last.res = {"ok", "err"}
          /\ \A k \in 1..(Len(last.seen) - 1) :
                ~Fails(last.arg.base_url, last.seen[k])
          /\ IF last.seen = <<>>
             THEN last.arg.dir.comps \notin DOMAIN fs
             ELSE Fails(last.arg.base_url, Last(last.seen))
    /\ \A i \in DOMAIN walks :
          \A k \in DOMAIN walks[i].seen :
             ~Fails(walks[i].base_url, walks[i].seen[k])

\* exchanges_from_dir failed at a file after another file had been made
\* into an entry, on a Builder that already held exchanges.
C5_Witness ==
    /\ Returned("exchanges_from_dir")
    /\ ~last.res.ok
    /\ last.lost >= 1
    /\ b = None
    /\ \E k \in 1..(Len(last.seen) - 1) : fs[last.seen[k]].kind = "file"
    /\ fs[Last(last.seen)].kind = "file"

\* C6: every entry in a collector's list has as body the bytes of the file
\* at base_dir joined with its relative path, a content-length equal to the
\* length of that body, and status OK.
C6_ResponseMatchesFile ==
    /\ eb # None =>
          \A k \in DOMAIN eb.some.exchanges :
             LET r == eb.some.exchanges[k].response
                 node == Lookup(eb.some.base_dir.comps \o eb.some.srcs[k].comps)
             IN /\ node # None
                /\ r.body = node.some.body
                /\ r.content_length = Len(node.some.body)
                /\ r.status = "OK"
    /\ \A i \in DOMAIN walks :
          \A k \in DOMAIN walks[i].entries :
             LET r == walks[i].entries[k].response
                 node == fs[walks[i].base_dir.comps \o walks[i].srcs[k].comps]
             IN /\ r.body = node.body
                /\ r.content_length = Len(r.body)
                /\ r.status = "OK"

\* A collector holding two entries, one of them of a file that is not empty.
C6_Witness ==
    /\ eb # None
    /\ Len(eb.some.exchanges) = 2
    /\ \E k \in DOMAIN eb.some.exchanges :
          eb.some.exchanges[k].response.content_length = 2

\* C7: a successful walk makes one entry per regular file under the base
\* directory, at any depth, and none for anything else; each URL is the
\* join of the base URL and the file's path relative to the base directory.
\* For index.html and js/hello.js under https://example.com/ these are
\* https://example.com/index.html and https://example.com/js/hello.js.
C7_OneEntryPerFile ==
    \A i \in DOMAIN walks :
       LET w == walks[i]
       IN /\ Len(w.entries) = Cardinality(TreeFiles(w.base_dir))
          /\ Range(w.srcs) = { RelTo(w.base_dir, c) : c \in TreeFiles(w.base_dir) }
          /\ \A k \in DOMAIN w.entries :
                /\ UriString(w.entries[k]) = Joined(w.base_url, w.srcs[k])
                /\ w.entries[k].request.method = "GET"
          /\ (fs = TestFs /\ w.base_url = MkUrl(Origin, <<"">>, FALSE)) =>
                { UriString(w.entries[k]) : k \in DOMAIN w.entries }
                   = { <<Origin, "/", "index.html">>,
                       <<Origin, "/", "js", "/", "hello.js">> }

\* The walk of the crate's test: two files under https://example.com/.
C7_Witness ==
    /\ fs = TestFs
    /\ \E i \in DOMAIN walks :
          /\ walks[i].base_url = MkUrl(Origin, <<"">>, FALSE)
          /\ Len(walks[i].entries) = 2

C9_WalkIdempotent ==
    \A i, j \in DOMAIN walks :
       (walks[i].base_dir = walks[j].base_dir
          /\ walks[i].base_url = walks[j].base_url) =>
          /\ { UriString(e) : e \in Range(walks[i].entries) }
                = { UriString(e) : e \in Range(walks[j].entries) }
          /\ Len(walks[i].entries) = Len(walks[j].entries)

\* Two walks of the same directory and base URL that took different orders.
C9_Witness ==
    /\ Len(walks) = 2
    /\ walks[1].base_dir = walks[2].base_dir
    /\ walks[1].base_url = walks[2].base_url
    /\ walks[1].seen # walks[2].seen
    /\ Len(walks[1].entries) = 2

SameBut(old, new, fields) ==
    \A f \in {"version", "primary_url", "manifest", "exchanges"} \ fields :
       old[f] = new[f]

\* C10: version, primary_url and manifest set their own field to the value
\* given and leave the other fields alone; exchange and a successful
\* exchanges_from_dir (the step of a Builder that adds a walk to the
\* history) leave the three fields alone and extend the exchange list, what
\* it held staying in front.
C10_Frame ==
    [][ /\ \A v \in Versions :
             CallVersion(v) =>
                /\ b'.some.version = Some(v)
                /\ SameBut(b.some, b'.some, {"version"})
        /\ \A u \in PrimaryUrls :
             CallPrimaryUrl(u) =>
                /\ b'.some.primary_url = Some(u)
                /\ SameBut(b.some, b'.some, {"primary_url"})
        /\ \A u \in ManifestUrls :
             CallManifest(u) =>
                /\ b'.some.manifest = Some(u)
                /\ SameBut(b.some, b'.some, {"manifest"})
        /\ \A e \in GivenExchanges :
             CallExchange(e) =>
                /\ SameBut(b.some, b'.some, {"exchanges"})
                /\ b'.some.exchanges = b.some.exchanges \o <<e>>
        /\ (b # None /\ b' # None /\ Len(walks') = Len(walks) + 1) =>
                /\ SameBut(b.some, b'.some, {"exchanges"})
                /\ IsPrefix(b.some.exchanges, b'.some.exchanges)
      ]_vars

\* A Builder with all three fields set, an exchange added, and then a
\* directory of two files.
C10_Witness ==
    /\ b # None
    /\ b.some.version # None
    /\ b.some.primary_url # None
    /\ b.some.manifest # None
    /\ Len(added) = 2
    /\ added[2].kind = "dir"
    /\ Len(b.some.exchanges) = 3

====
